---------------------------- MODULE Spec2Model ----------------------------
(***************************************************************************)
(* Federated-learning client with the stochastic rotation quantization     *)
(* codec (biased decoder) of Flower/MNIST/.../client.py.                    *)
(*                                                                         *)
(* Tensors hold IEEE-754 binary32 numbers (client.py:16-18 casts the       *)
(* rotation matrices to torch.float32, the model's parameters are float32).*)
(* A finite binary32 number is the record [m, e] of value m * 2^e, either  *)
(* zero (m = 0, e = 0) or normalised (2^23 <= |m| < 2^24); every operation *)
(* rounds to nearest, ties to even, as the CPU kernels do.  Overflow and   *)
(* subnormals are out of the exponent range the inputs reach and are not   *)
(* modelled.  NaN is one record of its own.                                *)
(***************************************************************************)
EXTENDS Integers, Sequences, FiniteSets, TLC

(***************************** binary32 *********************************)

RECURSIVE Pow2(_)
Pow2(n) == IF n <= 0 THEN 1 ELSE 2 * Pow2(n - 1)

\* number of bits of the natural number n (0 for 0)
RECURSIVE BitLen(_)
BitLen(n) == IF n = 0 THEN 0 ELSE 1 + BitLen(n \div 2)

Abs(x) == IF x < 0 THEN -x ELSE x

Sgn(x) == IF x.m < 0 THEN -1 ELSE IF x.m > 0 THEN 1 ELSE 0

Zero == [m |-> 0, e |-> 0]

NaN == [m |-> 0, e |-> 9999]

IsNaN(x) == x = NaN

\* The binary32 nearest to sign * (n + eps) * 2^e, eps in (0,1) when
\* sticky = 1 and eps = 0 otherwise; ties go to the even significand.
Round(sign, n, e, sticky) ==
    IF n = 0 THEN Zero
    ELSE LET len == BitLen(n) IN
         IF len <= 24
         THEN [m |-> sign * n * Pow2(24 - len), e |-> e - (24 - len)]
         ELSE LET k    == len - 24
                  q    == n \div Pow2(k)
                  r    == n % Pow2(k)
                  half == Pow2(k - 1)
                  up   == r > half \/ (r = half /\ (sticky = 1 \/ q % 2 = 1))
                  q1   == IF up THEN q + 1 ELSE q
              IN IF q1 = Pow2(24)
                 THEN [m |-> sign * Pow2(23), e |-> e + k + 1]
                 ELSE [m |-> sign * q1, e |-> e + k]

FNeg(x) == IF IsNaN(x) THEN NaN ELSE [m |-> -x.m, e |-> x.e]

\* x < y on binary32 (false when either is NaN)
FLess(x, y) ==
    IF IsNaN(x) \/ IsNaN(y) THEN FALSE
    ELSE IF Sgn(x) # Sgn(y) THEN Sgn(x) < Sgn(y)
    ELSE IF Sgn(x) = 0 THEN FALSE
    ELSE IF Sgn(x) = 1 THEN x.e < y.e \/ (x.e = y.e /\ x.m < y.m)
    ELSE x.e > y.e \/ (x.e = y.e /\ x.m < y.m)

FLeq(x, y) == ~IsNaN(x) /\ ~IsNaN(y) /\ ~FLess(y, x)

\* |x| + |y| or |x| - |y| for normalised x, y with |x| >= |y|, signed sign:
\* y is aligned to x with three guard bits, the bits shifted out are sticky.
AddMag(sign, x, y, sub) ==
    LET d  == x.e - y.e
        A  == Abs(x.m) * 8
        B  == Abs(y.m) * 8
        Bq == IF d > 30 THEN 0 ELSE B \div Pow2(d)
        Bs == IF d > 30 THEN 1 ELSE IF B % Pow2(d) # 0 THEN 1 ELSE 0
    IN IF sub
       THEN Round(sign, A - Bq - Bs, x.e - 3, Bs)
       ELSE Round(sign, A + Bq, x.e - 3, Bs)

MagLess(x, y) == x.e < y.e \/ (x.e = y.e /\ Abs(x.m) < Abs(y.m))

\* x + y on binary32
FAdd(x, y) ==
    IF IsNaN(x) \/ IsNaN(y) THEN NaN
    ELSE IF x.m = 0 THEN y
    ELSE IF y.m = 0 THEN x
    ELSE LET big   == IF MagLess(x, y) THEN y ELSE x
             small == IF MagLess(x, y) THEN x ELSE y
         IN AddMag(Sgn(big), big, small, Sgn(x) # Sgn(y))

\* x - y on binary32
FSub(x, y) == FAdd(x, FNeg(y))

\* x * n on binary32, n an integer in 0..63 (exactly representable)
FMulInt(x, n) ==
    IF IsNaN(x) THEN NaN
    ELSE IF n < 0 THEN FNeg(Round(Sgn(x), Abs(x.m) * (-n), x.e, 0))
    ELSE Round(Sgn(x), Abs(x.m) * n, x.e, 0)

\* x / n on binary32, n an integer in -63..63; 0/0 is NaN
\* (a nonzero x over 0 is an infinity, which no caller produces)
FDivInt(x, n) ==
    IF IsNaN(x) \/ n = 0 THEN NaN
    ELSE LET a == Abs(x.m) * 128
             d == Abs(n)
             s == IF n < 0 THEN -Sgn(x) ELSE Sgn(x)
         IN Round(s, a \div d, x.e - 7, IF a % d # 0 THEN 1 ELSE 0)

\* the quotient bits of num / den by long division: n more bits after q
RECURSIVE DivBits(_, _, _, _)
DivBits(q, r, den, n) ==
    IF n = 0 THEN [q |-> q, r |-> r]
    ELSE LET r2 == 2 * r IN
         IF r2 >= den THEN DivBits(2 * q + 1, r2 - den, den, n - 1)
         ELSE DivBits(2 * q, r2, den, n - 1)

\* x / y on binary32 (0/0 and anything with NaN are NaN; y = 0 with x # 0
\* is an infinity, which no caller produces)
FDiv(x, y) ==
    IF IsNaN(x) \/ IsNaN(y) \/ y.m = 0 THEN NaN
    ELSE IF x.m = 0 THEN Zero
    ELSE LET a  == Abs(x.m)
             d  == Abs(y.m)
             qr == DivBits(a \div d, a % d, d, 26)
         IN Round(Sgn(x) * Sgn(y), qr.q, x.e - y.e - 26,
                  IF qr.r # 0 THEN 1 ELSE 0)

\* x != y as torch compares (NaN differs from everything, itself included)
FNeq(x, y) == IsNaN(x) \/ IsNaN(y) \/ x # y

F(m, e) == [m |-> m, e |-> e]

One == F(8388608, -23)

MinusOne == F(-8388608, -23)

Half == F(8388608, -24)

Two == F(8388608, -22)

OnePointFive == F(12582912, -23)

Three == F(12582912, -22)

\* 0.1 and 0.3 rounded to binary32
Tenth == F(13421773, -27)

ThreeTenths == F(10066330, -25)

(***************************** tensors **********************************)
\* A tensor is a sequence of rows, each a sequence of binary32 numbers; a
\* 1-d tensor of n elements is held as its single row.

Range(f) == {f[i] : i \in DOMAIN f}

Elems(t) == UNION {Range(t[i]) : i \in DOMAIN t}

TMax(t) == LET E == Elems(t) IN CHOOSE x \in E : \A y \in E : FLeq(y, x)

TMin(t) == LET E == Elems(t) IN CHOOSE x \in E : \A y \in E : FLeq(x, y)

\* elementwise map of a tensor through a table: one record per distinct
\* element v, of which the named field is taken
Entry(tab, v) == CHOOSE e \in tab : e.v = v

MapT(t, tab, field) ==
    [i \in DOMAIN t |-> [j \in DOMAIN t[i] |-> Entry(tab, t[i][j])[field]]]

(***************************** encoder **********************************)

KDefault == 64

\* what a call that may raise gives: a value or the error raised
Error(kind) == [error |-> kind]

Ok(v) == [ok |-> v]

IsError(x) == "error" \in DOMAIN x

\* b = min + s * arange(K) / (K - 1), s = max - min        (client.py:116-117)
\* as the sequence of the K levels
Levels(params, k) ==
    LET lo == TMin(params)
        s  == FSub(TMax(params), lo)
    IN SubSeq([i \in 1..k |-> FAdd(lo, FDivInt(FMulInt(s, i - 1), k - 1))], 1, k)

\* torch.searchsorted(b, v, side='right'): the elements of the sorted b that
\* are not greater than v
SearchSortedRight(b, v) == Cardinality({i \in DOMAIN b : ~FLess(v, b[i])})

\* ids, then pts = (ids, ids+1) with every entry equal to K replaced by K-1
\*                                                          (client.py:120-131)
Pts(b, k, v) ==
    LET ids == SearchSortedRight(b, v) - 1
        fix(p) == IF p = k THEN k - 1 ELSE p
    IN <<fix(ids), fix(ids + 1)>>

\* Python indexing b[p] of a 1-d tensor: 0-based, negative from the end
InRange(b, p) == -Len(b) <= p /\ p < Len(b)

Index(b, p) == IF p >= 0 THEN b[p + 1] ELSE b[Len(b) + p + 1]

\* one element's (B(r), B(r+1))                              (client.py:134)
Brs(b, k, v) == <<Index(b, Pts(b, k, v)[1]), Index(b, Pts(b, k, v)[2])>>

\* a variant of Prob that rounds to the nearer bound instead of drawing
ProbNearest(v, br) ==
    IF FLess(FSub(v, br[1]), FSub(br[2], v)) THEN Zero ELSE One

\* one element's probability of a 1 bit                      (client.py:138-139)
Prob(v, br) ==
    IF FNeq(br[2], br[1])
    THEN FDiv(FSub(v, br[1]), FSub(br[2], br[1]))
    ELSE Zero

\* the bits torch.bernoulli may draw for one probability: 0 for p = 0, 1 for
\* p = 1, either in between
Bits(p) == IF p = Zero THEN {0} ELSE IF p = One THEN {1} ELSE {0, 1}

\* torch.bernoulli(probs): every tensor of independent draws (client.py:142)
Bernoulli(probs) ==
    LET open == {ij \in {<<i, j>> : i \in DOMAIN probs, j \in 1..Len(probs[1])} :
                    Cardinality(Bits(probs[ij[1]][ij[2]])) = 2}
    IN {[i \in DOMAIN probs |-> [j \in DOMAIN probs[i] |->
            IF <<i, j>> \in open THEN f[<<i, j>>]
            ELSE CHOOSE x \in Bits(probs[i][j]) : TRUE]] : f \in [open -> {0, 1}]}

\* The deterministic part of encoder(params): the levels and, per element,
\* the bracket and the probability; an error when an index is out of range.
encoder(params, k) ==
    IF k < 0 THEN Error("RuntimeError")              \* torch.arange(K), K < 0
    ELSE LET b == Levels(params, k)
             E == Elems(params)
         IN IF \E v \in E : \E n \in 1..2 : ~InRange(b, Pts(b, k, v)[n])
            THEN Error("IndexError")                  \* b[pts], client.py:134
            ELSE LET tab == {[v    |-> v,
                               ids  |-> SearchSortedRight(b, v) - 1,
                               brs  |-> Brs(b, k, v),
                               prob |-> Prob(v, Brs(b, k, v))] : v \in E}
                 IN Ok([b     |-> b,
                        ids   |-> MapT(params, tab, "ids"),
                        brs   |-> MapT(params, tab, "brs"),
                        probs |-> MapT(params, tab, "prob")])

(***************************** decoder **********************************)

\* a variant of Reconstruct that gives the bound the bit names
ReconstructEnds(bit, br) == IF bit = 1 THEN br[2] ELSE br[1]

\* (3*B(r+1)+B(r))/4 for a 1 bit, (3*B(r)+B(r+1))/4 for a 0 bit
\*                                              (client.py:158-162, 167-171)
Reconstruct(bit, br) ==
    IF bit = 1
    THEN FDivInt(FAdd(FMulInt(br[2], 3), br[1]), 4)
    ELSE FDivInt(FAdd(FMulInt(br[1], 3), br[2]), 4)

DecodeT(encs, brs) ==
    [i \in DOMAIN encs |-> [j \in DOMAIN encs[i] |-> Reconstruct(encs[i][j], brs[i][j])]]

(*********************** rotation, chunks, reassembly *******************)
\* R1024 and R512 are read from files (client.py:16-18).  The model takes
\* them to be permutation matrices, which are orthogonal and act exactly on
\* binary32: kind "identity" or "reverse" (the anti-diagonal), of size n.

ChunkSize == 1024

R512Size == 512

Rot(kind, n) == [kind |-> kind, n |-> n]

\* torch.matmul(R, x) for a vector x: a size mismatch raises
Matmul(R, x) ==
    IF Len(x) # R.n THEN Error("RuntimeError")
    ELSE IF R.kind = "identity" THEN Ok(x)
    ELSE Ok([i \in 1..R.n |-> x[R.n + 1 - i]])

\* torch.linalg.inv(R): both kinds are their own inverse
Inv(R) == R

\* torch.matmul(R, rows.T).T: every row rotated, rows being n x R.n
MatmulRows(R, rows) ==
    IF \E i \in DOMAIN rows : Len(rows[i]) # R.n THEN Error("RuntimeError")
    ELSE Ok([i \in DOMAIN rows |-> Matmul(R, rows[i]).ok])

\* torch.stack(torch.split(flat[:n - n % 1024], 1024)): the split of an empty
\* tensor is one empty chunk                                (client.py:203-205)
Split1024(flat) ==
    LET n == Len(flat) - (Len(flat) % ChunkSize)
    IN IF n = 0 THEN << <<>> >>
       ELSE [r \in 1..(n \div ChunkSize) |->
                SubSeq(flat, (r - 1) * ChunkSize + 1, r * ChunkSize)]

\* flat[-(n % 1024):], which is all of flat when n % 1024 = 0  (client.py:210)
Tail512(flat) ==
    LET k == Len(flat) % ChunkSize
    IN IF k = 0 THEN flat ELSE SubSeq(flat, Len(flat) - k + 1, Len(flat))

\* ceil(log2(n)) for n >= 1
RECURSIVE CeilLog2From(_, _)
CeilLog2From(n, c) == IF Pow2(c) >= n THEN c ELSE CeilLog2From(n, c + 1)

\* int(2**ceil(log2(n)) - n), 0 for n = 0 (2**-inf)            (client.py:212-213)
PadCount(n) == IF n = 0 THEN 0 ELSE Pow2(CeilLog2From(n, 0)) - n

\* a variant of PadZeros that puts the zeros in front
PadFront(x) == [i \in 1..PadCount(Len(x)) |-> Zero] \o x

\* params512 padded with zeros                                (client.py:212-213)
PadZeros(x) == x \o [i \in 1..PadCount(Len(x)) |-> Zero]

\* the two tensors get_parameters cuts flat_params into, before rotation
Split(flat) == [params1024 |-> Split1024(flat), params512 |-> PadZeros(Tail512(flat))]

RECURSIVE Flatten(_)
Flatten(rows) == IF rows = <<>> THEN <<>> ELSE Head(rows) \o Flatten(Tail(rows))

\* a variant of Slice that fills with zeros instead of stopping at the end
SliceFilled(x, a, b) == [i \in 1..(b - a) |-> IF a + i <= Len(x) THEN x[a + i] ELSE Zero]

\* Python's dec[a:b] (0-based, clamped to the tensor)
Slice(x, a, b) == SubSeq(x, a + 1, IF b > Len(x) THEN Len(x) ELSE b)

\* the loop over model.parameters(): a slice that holds fewer elements than
\* the layer makes reshape raise; layers holds each layer's numel
\*                                                          (client.py:179-185)
RECURSIVE Reassemble(_, _, _)
Reassemble(x, layers, ptr) ==
    IF layers = <<>> THEN Ok(<<>>)
    ELSE LET size == Head(layers)
             part == Slice(x, ptr, ptr + size)
         IN IF Len(part) # size THEN Error("RuntimeError")
            ELSE LET rest == Reassemble(x, Tail(layers), ptr + size)
                 IN IF IsError(rest) THEN rest ELSE Ok(<<part>> \o rest.ok)

\* decoder(encs_brs_1024, encs_brs_512): reconstruct, rotate back with the
\* inverses, concatenate, cut into the layers; e1 and e2 are [encs, brs]
\*                                                          (client.py:146-185)
decoder(e1, e2, R1024, R512, layers) ==
    LET dec1024 == MatmulRows(Inv(R1024), DecodeT(e1.encs, e1.brs))
        dec512  == Matmul(Inv(R512), DecodeT(e2.encs, e2.brs)[1])
    IN IF IsError(dec1024) THEN dec1024
       ELSE IF IsError(dec512) THEN dec512
       ELSE Reassemble(Flatten(dec1024.ok) \o dec512.ok, layers, 0)

(************************ the codec, called directly ********************)
\* encoder(params) followed by the decoder's reconstruction of its result,
\* for tensors and level counts drawn from small sets.

VARIABLES
    K,        \* the module's level count (client.py:14)
    params,   \* encoder's argument
    enc,      \* encoder's levels b and per-element ids, brs, probs
    encs,     \* the bits encoder returns
    dec,      \* the decoder's per-element reconstruction, before inv(R)
    cst,      \* codec called directly: "start", "encoded", "decoded", "error"
    flat,     \* a flattened parameter vector to be cut into chunks
    layers,   \* numel of each of model.parameters(), in order
    split,    \* params1024 and params512 as get_parameters cuts them
    merged,   \* decoder's concatenation of the chunks (dec)
    revert,   \* decoder's list of per-layer arrays
    kst,      \* chunking called directly: "start", "split", "merged", "error"
    pc,       \* the client: where the handler being served stands
    rot,      \* kind of the rotation matrices loaded at start
    weights,  \* the model's parameters, flattened
    received, \* the parameters the server sent with the call
    returned, \* what the last handler returned
    calls,    \* the handler being served and the calls it has made, in order
    round     \* handlers served so far

cvars == <<K, params, enc, encs, dec, cst>>

kvars == <<flat, layers, split, merged, revert, kst>>

pvars == <<pc, rot, weights, received, returned, calls, round>>

vars == <<cvars, kvars, pvars>>

None == [none |-> TRUE]

CodecOff == params = None /\ enc = None /\ encs = None /\ dec = None /\ cst = "off"

ChunkOff ==
    /\ flat = None /\ layers = None /\ split = None
    /\ merged = None /\ revert = None /\ kst = "off"

ClientOff ==
    /\ pc = "off" /\ rot = None /\ weights = None /\ received = None
    /\ returned = None /\ calls = <<>> /\ round = 0

FloatVals == {MinusOne, Zero, Tenth, ThreeTenths, One, OnePointFive, Three}

MaxCols == 3

MaxRows == 2

KValues == {0, 1, 2, 4, KDefault}

\* rows stacked into 2-d tensors
StackRows == {<<Zero, One>>, <<Zero, Three>>, <<MinusOne, Tenth>>}

Tensors ==
    {<<row>> : row \in UNION {[1..n -> FloatVals] : n \in 1..MaxCols}}
    \cup UNION {[1..n -> StackRows] : n \in 2..MaxRows}

CodecInit ==
    /\ K \in KValues
    /\ params \in Tensors
    /\ enc = None
    /\ encs = None
    /\ dec = None
    /\ cst = "start"
    /\ ChunkOff
    /\ ClientOff

HasNaN(probs) == \E i \in DOMAIN probs : \E j \in DOMAIN probs[i] : IsNaN(probs[i][j])

\* encoder(params) returns (encs, brs)                       (client.py:104-143)
Encode ==
    /\ cst = "start"
    /\ LET r == encoder(params, K) IN
         /\ ~IsError(r)
         /\ enc' = r.ok
         /\ encs' \in Bernoulli(r.ok.probs)
         /\ cst' = "encoded"
    /\ UNCHANGED <<K, params, dec, kvars, pvars>>

\* encoder(params) raises: an index out of range, or torch.bernoulli given a
\* probability outside [0, 1] (NaN), which it may reject
EncodeFails ==
    /\ cst = "start"
    /\ LET r == encoder(params, K) IN
         \/ IsError(r) /\ enc' = r
         \/ ~IsError(r) /\ HasNaN(r.ok.probs) /\ enc' = Error("RuntimeError")
    /\ cst' = "error"
    /\ UNCHANGED <<K, params, encs, dec, kvars, pvars>>

\* the torch.where of decoder on encoder's result  (client.py:158-162, 167-171)
Decode ==
    /\ cst = "encoded"
    /\ ~HasNaN(enc.probs)
    /\ dec' = DecodeT(encs, enc.brs)
    /\ cst' = "decoded"
    /\ UNCHANGED <<K, params, enc, encs, kvars, pvars>>

\* where encoder's torch.bernoulli was given NaN and did not raise (the CUDA
\* kernel's check is asynchronous), the failure surfaces in the caller
DecodeFails ==
    /\ cst = "encoded"
    /\ HasNaN(enc.probs)
    /\ cst' = "error"
    /\ UNCHANGED <<K, params, enc, encs, dec, kvars, pvars>>

CodecNext == Encode \/ EncodeFails \/ Decode \/ DecodeFails

SpecCodec == CodecInit /\ [][CodecNext]_vars

(********************** the chunking, called directly *******************)
\* The cut of get_parameters followed by the concatenation and the layer loop
\* of decoder, with the rotation and the codec between them left out, on
\* vectors of distinct nonzero numbers.

MaxChunks == 2

ChunkRems == {0, 1, 2, 100, 255, 256, 257, 394, 511, 512, 513, 1023}

Lengths == {q * ChunkSize + r : q \in 0..MaxChunks, r \in ChunkRems} \ {0}

\* the vector 1 + i * 2^-23, i = 1..n: distinct, none zero
Vec(n) == [i \in 1..n |-> F(8388608 + i, -23)]

\* length of decoder's dec for a vector of n elements
DecLen(n) == Len(Flatten(Split(Vec(n)).params1024)) + Len(Split(Vec(n)).params512)

\* layer lists for a vector of n elements: of total n, of the decoded length,
\* and of more than the decoded length
ManifestsFor(n) ==
    {<<n>>, <<DecLen(n)>>, <<DecLen(n) + 1>>, <<n, DecLen(n) - n + 1>>}
    \cup (IF n > 1 THEN {<<1, n - 1>>, <<n - 1, 1>>} ELSE {})

RECURSIVE Sum(_)
Sum(q) == IF q = <<>> THEN 0 ELSE Head(q) + Sum(Tail(q))

ChunkInit ==
    /\ K = KDefault
    /\ CodecOff
    /\ ClientOff
    /\ \E n \in Lengths : flat = Vec(n) /\ layers \in ManifestsFor(n)
    /\ split = None
    /\ merged = None
    /\ revert = None
    /\ kst = "start"

\* the cut of flat_params                                   (client.py:203-213)
SplitStep ==
    /\ kst = "start"
    /\ split' = Split(flat)
    /\ kst' = "split"
    /\ UNCHANGED <<cvars, pvars, flat, layers, merged, revert>>

\* dec = cat(flatten(dec1024), dec512), then the layer loop  (client.py:176-185)
MergeStep ==
    /\ kst = "split"
    /\ merged' = Flatten(split.params1024) \o split.params512
    /\ LET r == Reassemble(merged', layers, 0) IN
         /\ ~IsError(r)
         /\ revert' = r.ok
    /\ kst' = "merged"
    /\ UNCHANGED <<cvars, pvars, flat, layers, split>>

\* the layer loop raises
MergeFails ==
    /\ kst = "split"
    /\ merged' = Flatten(split.params1024) \o split.params512
    /\ LET r == Reassemble(merged', layers, 0) IN
         /\ IsError(r)
         /\ revert' = r
    /\ kst' = "error"
    /\ UNCHANGED <<cvars, pvars, flat, layers, split>>

ChunkNext == SplitStep \/ MergeStep \/ MergeFails

SpecChunk == ChunkInit /\ [][ChunkNext]_vars

(****************************** the client ******************************)
\* FlowerClient serving the framework's calls fit, evaluate and
\* get_parameters, for models of several sizes.

MaxRounds == 1

ClientRems == {0, 100, 394, 512, 513}

ClientLengths == {q * ChunkSize + r : q \in 0..MaxChunks, r \in ClientRems} \ {0}

RotKinds == {"identity", "reverse"}

R1024 == Rot(rot, ChunkSize)

R512 == Rot(rot, R512Size)

\* parameter vectors of n elements: what the model starts with, what
\* training leaves and what the server sends
W(p, n) ==
    [i \in 1..n |->
        CASE p = "const" -> One
          [] p = "two"   -> IF i % 2 = 0 THEN Three ELSE Zero
          [] p = "spike" -> IF i = 1 THEN Three
                            ELSE IF i = 2 THEN OnePointFive ELSE Zero
          [] p = "frac"  -> IF i = 1 THEN Tenth ELSE MinusOne]

Trained == {"two", "frac"}

Sent == {"const", "spike"}

\* the list of per-layer arrays of a flat vector
RECURSIVE Unflatten(_, _)
Unflatten(v, ls) ==
    IF ls = <<>> THEN <<>>
    ELSE <<SubSeq(v, 1, Head(ls))>> \o Unflatten(SubSeq(v, Head(ls) + 1, Len(v)), Tail(ls))

ClientInit ==
    /\ K = KDefault
    /\ CodecOff
    /\ flat = None /\ merged = None /\ revert = None /\ kst = "off"
    /\ split = None
    /\ rot \in RotKinds
    /\ \E n \in ClientLengths :
         /\ layers \in {<<n>>} \cup (IF n > 1 THEN {<<n - 1, 1>>} ELSE {})
         /\ weights = W("const", n)
    /\ received = None
    /\ returned = None
    /\ calls = <<>>
    /\ round = 0
    /\ pc = "idle"

\* the framework calls fit(parameters, config)              (client.py:229)
Fit ==
    /\ pc = "idle"
    /\ round < MaxRounds
    /\ \E p \in Sent : received' = Unflatten(W(p, Len(weights)), layers)
    /\ calls' = <<"fit">>
    /\ pc' = "fit"
    /\ round' = round + 1
    /\ returned' = None
    /\ split' = None
    /\ UNCHANGED <<cvars, flat, layers, merged, revert, kst, rot, weights>>

\* the framework calls evaluate(parameters, config)         (client.py:239)
Evaluate ==
    /\ pc = "idle"
    /\ round < MaxRounds
    /\ \E p \in Sent : received' = Unflatten(W(p, Len(weights)), layers)
    /\ calls' = <<"evaluate">>
    /\ pc' = "evaluate"
    /\ round' = round + 1
    /\ returned' = None
    /\ split' = None
    /\ UNCHANGED <<cvars, flat, layers, merged, revert, kst, rot, weights>>

\* the framework calls get_parameters(config)               (client.py:195)
GetParametersCalled ==
    /\ pc = "idle"
    /\ round < MaxRounds
    /\ received' = None
    /\ calls' = <<>>
    /\ pc' = "get_parameters"
    /\ round' = round + 1
    /\ returned' = None
    /\ split' = None
    /\ UNCHANGED <<cvars, flat, layers, merged, revert, kst, rot, weights>>

\* where set_parameters runs in fit and evaluate: first     (client.py:235, 241)
CanLoad == pc \in {"fit", "evaluate"}

\* self.set_parameters(parameters, config): the arrays are loaded as they
\* arrived                                                   (client.py:222-227)
SetParameters ==
    /\ CanLoad
    /\ weights' = Flatten(received)
    /\ calls' = Append(calls, "set_parameters")
    /\ pc' = IF pc = "fit" THEN "fit_loaded" ELSE "evaluate_loaded"
    /\ UNCHANGED <<cvars, kvars, rot, received, returned, round>>

\* a variant of CanTrain that lets training start on receipt
CanTrainOnReceipt == pc \in {"fit", "fit_loaded"}

\* where train runs in fit: after set_parameters            (client.py:236)
CanTrain == pc = "fit_loaded"

\* train(self.model, ...) leaves new parameters             (client.py:236)
Train ==
    /\ CanTrain
    /\ \E p \in Trained : weights' = W(p, Len(weights))
    /\ calls' = Append(calls, "train")
    /\ pc' = "get_parameters"
    /\ UNCHANGED <<cvars, kvars, rot, received, returned, round>>

\* val(self.model, self.valloader), then the metrics are returned
\*                                                          (client.py:242-245)
Val ==
    /\ pc = "evaluate_loaded"
    /\ calls' = Append(calls, "val")
    /\ returned' = [metrics |-> "loss, accuracy"]
    /\ pc' = "idle"
    /\ UNCHANGED <<cvars, kvars, rot, weights, received, round>>

\* what get_parameters holds once both calls of encoder are back
\*                                                          (client.py:217-218)
Staged(sp, e1, e2) ==
    IF IsError(e1) THEN [error |-> e1.error, split |-> sp]
    ELSE IF IsError(e2) THEN [error |-> e2.error, split |-> sp]
    ELSE [ok |-> [e1 |-> e1.ok, e2 |-> e2.ok], split |-> sp]

\* get_parameters up to the bits: the cut, the rotations and the two calls
\* of encoder; split keeps what was cut when a rotation raises
\*                                                          (client.py:199-218)
Prepare(w) ==
    LET sp == Split1024(w)
        r1 == MatmulRows(R1024, sp)
    IN IF IsError(r1)
       THEN [error |-> r1.error, split |-> [params1024 |-> sp, params512 |-> None]]
       ELSE LET tl == PadZeros(Tail512(w))
                r2 == Matmul(R512, tl)
            IN IF IsError(r2)
               THEN [error |-> r2.error, split |-> [params1024 |-> sp, params512 |-> tl]]
               ELSE Staged(Split(w), encoder(r1.ok, K), encoder(<<r2.ok>>, K))

\* the bits are drawn and decoder's result is returned      (client.py:142, 219-220)
Returns(g) ==
    /\ ~IsError(g)
    /\ split' = g.split
    /\ \E b1 \in Bernoulli(g.ok.e1.probs) : \E b2 \in Bernoulli(g.ok.e2.probs) :
         LET r == decoder([encs |-> b1, brs |-> g.ok.e1.brs],
                          [encs |-> b2, brs |-> g.ok.e2.brs],
                          R1024, R512, layers)
         IN /\ ~IsError(r)
            /\ returned' = [parameters |-> r.ok]

Raises(g) ==
    /\ IsError(g)
    /\ split' = g.split
    /\ returned' = Error(g.error)

\* get_parameters returns the decoded arrays; fit returns them to the
\* framework                                          (client.py:195-220, 237)
GetParameters ==
    /\ pc = "get_parameters"
    /\ Returns(Prepare(weights))
    /\ calls' = calls \o <<"get_parameters", "encoder", "encoder", "decoder">>
    /\ pc' = "idle"
    /\ UNCHANGED <<cvars, flat, layers, merged, revert, kst, rot, weights, received, round>>

\* get_parameters raises before encoder is called: a rotation matrix does
\* not fit what was cut
GetParametersFails ==
    /\ pc = "get_parameters"
    /\ Raises(Prepare(weights))
    /\ calls' = Append(calls, "get_parameters")
    /\ pc' = "error"
    /\ UNCHANGED <<cvars, flat, layers, merged, revert, kst, rot, weights, received, round>>

Next ==
    \/ Fit \/ Evaluate \/ GetParametersCalled
    \/ SetParameters \/ Train \/ Val
    \/ GetParameters \/ GetParametersFails

Spec == ClientInit /\ [][Next]_vars

(************************ properties of the codec ***********************)

ElemIdx(t) == {<<i, j>> : i \in DOMAIN t, j \in 1..Len(t[1])}

At(t, ij) == t[ij[1]][ij[2]]

Encoded == cst \in {"encoded", "decoded"}

\* exact arithmetic on dyadic rationals m * 2^e, for expectations
RECURSIVE Red(_)
Red(x) == IF x.m = 0 THEN Zero
          ELSE IF x.m % 2 = 0 THEN Red([m |-> x.m \div 2, e |-> x.e + 1])
          ELSE x

DMul(x, y) == Red([m |-> Red(x).m * Red(y).m, e |-> Red(x).e + Red(y).e])

DAdd(x, y) ==
    LET a  == Red(x)
        b  == Red(y)
        lo == IF a.e < b.e THEN a.e ELSE b.e
    IN IF a.m = 0 THEN b
       ELSE IF b.m = 0 THEN a
       ELSE Red([m |-> a.m * Pow2(a.e - lo) + b.m * Pow2(b.e - lo), e |-> lo])

\* p * (reconstruction of a 1 bit) + (1 - p) * (reconstruction of a 0 bit)
ExpectedDecode(p, br) ==
    DAdd(DMul(p, Reconstruct(1, br)), DMul(DAdd(One, FNeg(p)), Reconstruct(0, br)))

\* C1 (as claimed): every element's bounds are the adjacent levels B(r),
\* B(r+1) with lowerBound <= v <= upperBound, and both bounds equal v when
\* v is the maximum of the tensor handed to encoder.
C1_BoundsBracketEveryElement ==
    (K >= 2 /\ Encoded) =>
        \A ij \in ElemIdx(params) :
            LET v  == At(params, ij)
                br == At(enc.brs, ij)
                r  == At(enc.ids, ij)
            IN /\ br[1] = enc.b[r + 1]
               /\ br[2] = enc.b[IF r + 2 > K THEN K ELSE r + 2]
               /\ FLeq(br[1], v)
               /\ FLeq(v, br[2])
               /\ (v = TMax(params) => br = <<v, v>>)

\* C2: for every encoded element with lowerBound <= upperBound the decoder's
\* reconstruction is (3*upperBound + lowerBound)/4 for a 1 bit and
\* (3*lowerBound + upperBound)/4 for a 0 bit, and lies in
\* [lowerBound, upperBound].
C2_DecoderReconstruction ==
    cst = "decoded" =>
        \A ij \in ElemIdx(params) :
            LET br  == At(enc.brs, ij)
                bit == At(encs, ij)
                d   == At(dec, ij)
            IN FLeq(br[1], br[2]) =>
                /\ bit = 1 => d = FDivInt(FAdd(FMulInt(br[2], 3), br[1]), 4)
                /\ bit = 0 => d = FDivInt(FAdd(FMulInt(br[1], 3), br[2]), 4)
                /\ FLeq(br[1], d)
                /\ FLeq(d, br[2])

\* a decoded tensor with a 1 bit and a 0 bit in brackets of nonzero width
C2_Witness ==
    /\ cst = "decoded"
    /\ \E ij \in ElemIdx(params) :
          At(encs, ij) = 1 /\ FLess(At(enc.brs, ij)[1], At(enc.brs, ij)[2])
    /\ \E ij \in ElemIdx(params) :
          At(encs, ij) = 0 /\ FLess(At(enc.brs, ij)[1], At(enc.brs, ij)[2])

\* C3 (as claimed): for K >= 2 encoder raises nothing, and every element
\* equal to the maximum gets r = K-1, both bounds equal to it, probability
\* 0, bit 0, and is reconstructed exactly.
C3_MaximumFixedPoint ==
    K >= 2 =>
        /\ cst # "error"
        /\ cst = "decoded" =>
              \A ij \in ElemIdx(params) :
                  LET v == At(params, ij) IN
                  v = TMax(params) =>
                      /\ At(enc.ids, ij) = K - 1
                      /\ At(enc.brs, ij) = <<v, v>>
                      /\ At(enc.probs, ij) = Zero
                      /\ At(encs, ij) = 0
                      /\ At(dec, ij) = v

\* the scenario of C5: K = 4, levels (0, 1, 2, 3)
Scenario == Encoded /\ K = 4 /\ enc.b = <<Zero, One, Two, Three>>

ScenarioHolds(expected) ==
    Scenario =>
        \A ij \in ElemIdx(params) :
            At(params, ij) = OnePointFive =>
                /\ At(enc.ids, ij) = 1
                /\ At(enc.brs, ij) = <<One, Two>>
                /\ At(enc.probs, ij) = Half
                /\ ExpectedDecode(At(enc.probs, ij), At(enc.brs, ij)) = Red(expected)

\* C5 (as claimed): in the scenario, v = 1.5 gets r = 1, bracket (1, 2),
\* p = 0.5 and an expected reconstruction of 1.75.
C5_ExpectedDecodeIs175 == ScenarioHolds(F(14680064, -23))

\* C5 (amended): in the scenario, v = 1.5 gets r = 1, bracket (1, 2),
\* p = 0.5, and the expected reconstruction 0.5 * 1.75 + 0.5 * 1.25 is 1.5.
C5_ExpectedDecodeIs150 == ScenarioHolds(OnePointFive)

\* the scenario with an element 1.5, decoded
C5_Witness ==
    /\ Scenario
    /\ cst = "decoded"
    /\ \E ij \in ElemIdx(params) : At(params, ij) = OnePointFive

\* C7 (as claimed): with K < 2 encoder never returns bits and bounds, it
\* fails with the level-count error.
C7_InvalidLevelCountRaised ==
    K < 2 =>
        /\ ~Encoded
        /\ cst = "error" => enc = Error("InvalidLevelCount")

\* C10 (as claimed): the levels used for a chunk (a row of the tensor handed
\* to encoder) are b_i = min(chunk) + (max(chunk) - min(chunk))*i/(K-1) of
\* that chunk alone.
C10_LevelsPerChunk ==
    (K >= 2 /\ Encoded) =>
        \A i \in DOMAIN params : enc.b = Levels(<<params[i]>>, K)

(********************** properties of the chunking **********************)

\* C4: cutting a vector of any length as get_parameters does and putting it
\* together as decoder does gives the vector back exactly; the zeros are at
\* the end of the last chunk only and none reaches a reassembled array.
C4_ChunkRoundTrip ==
    (kst \in {"merged", "error"} /\ Sum(layers) = Len(flat)) =>
        /\ kst = "merged"
        /\ Flatten(revert) = flat
        /\ Zero \notin Range(Flatten(revert))
        /\ Zero \notin Range(Flatten(split.params1024))
        /\ \E k \in 0..Len(split.params512) :
              /\ \A i \in 1..k : split.params512[i] # Zero
              /\ \A i \in (k + 1)..Len(split.params512) : split.params512[i] = Zero

\* a round trip of a vector whose length is a multiple of 1024
C4_Witness ==
    /\ kst = "merged"
    /\ Sum(layers) = Len(flat)
    /\ Len(flat) % ChunkSize = 0
    /\ Flatten(revert) = flat

\* C6 (as claimed): the layer loop fails whenever the layers' total differs
\* from the length of the decoded vector, and returns arrays only when they
\* are equal.
C6_FailsOnAnyMismatch ==
    kst \in {"merged", "error"} =>
        (kst = "error" <=> Sum(layers) # Len(merged))

\* C6 (amended): the layer loop fails exactly when the decoded vector is
\* shorter than the layers' total; otherwise it returns the arrays cut from
\* the first total elements and ignores the rest.
C6_FailsOnlyWhenShort ==
    kst \in {"merged", "error"} =>
        /\ kst = "error" <=> Sum(layers) > Len(merged)
        /\ kst = "merged" =>
              /\ Flatten(revert) = SubSeq(merged, 1, Sum(layers))
              /\ \A i \in DOMAIN layers : Len(revert[i]) = layers[i]

\* the loop has failed on a vector shorter than the layers' total
C6_Witness == kst = "error" /\ Sum(layers) > Len(merged)

(*********************** properties of the client ***********************)

IsPrefix(p, q) == Len(p) <= Len(q) /\ p = SubSeq(q, 1, Len(p))

FitCalls ==
    <<"fit", "set_parameters", "train", "get_parameters", "encoder", "encoder", "decoder">>

EvaluateCalls == <<"evaluate", "set_parameters", "val">>

GetParametersCalls == <<"get_parameters", "encoder", "encoder", "decoder">>

Loaded == pc \in {"fit_loaded", "evaluate_loaded"}

CatalogSize(n) == IF n <= R512Size THEN R512Size ELSE ChunkSize

\* C9 (as claimed): for every length L get_parameters cuts floor(L/1024)
\* chunks of 1024 and a remainder chunk of the last L mod 1024 elements
\* padded with zeros to the smallest catalog size that holds them, which is
\* the size of the rotation matrix applied to it.
C9_SplitSizes ==
    split # None =>
        LET L   == Len(weights)
            rem == L % ChunkSize
            p   == split.params1024
            t   == split.params512
        IN /\ (IF L < ChunkSize THEN <<>> ELSE p) =
                 [r \in 1..(L \div ChunkSize) |->
                     SubSeq(weights, (r - 1) * ChunkSize + 1, r * ChunkSize)]
           /\ t # None
           /\ t = SubSeq(weights, L - rem + 1, L) \o
                  [i \in 1..(CatalogSize(rem) - rem) |-> Zero]
           /\ Len(t) = R512.n

=============================================================================
